---- MODULE Spec2Model ----
(***************************************************************************)
(* Expense tracker client (App component and its remote API).              *)
(*                                                                         *)
(* The in-memory collection `expenses` is reconciled with a remote         *)
(* record-keeping service through four asynchronous calls.  Every async    *)
(* handler is split at its await points: the call, the remote service's    *)
(* processing of the call, and the continuation that consumes the          *)
(* response.                                                               *)
(*                                                                         *)
(* Encoding of JavaScript values:                                          *)
(*   - identifiers are naturals, 0 is a falsy/absent identifier;           *)
(*   - instants (timestamps) are naturals, 0 is a falsy/absent instant;    *)
(*   - a date-time string is the instant it denotes: its date portion      *)
(*     (split('T')[0]) is the day  e \div DayLen,  and a date-only string  *)
(*     of day d parses to the instant d * DayLen;  day 0 is the empty      *)
(*     date string;                                                        *)
(*   - texts are strings, "" is the falsy/absent text;                     *)
(*   - a raw amount is [num, v]: num = FALSE is a value Number() turns     *)
(*     into NaN (absent, non-numeric text).                                *)
(***************************************************************************)
EXTENDS Integers, Sequences, FiniteSets, TLC

VARIABLES
    expenses,   \* useState([])      : sequence of canonical records
    error,      \* useState(null)    : surfaced error message
    editingId,  \* useState(null)    : edit-in-progress marker (0 = null)
    loading,    \* useState(true)    : initial load indicator
    reqs,       \* requests issued so far, in flight or completed
    last,       \* index in reqs of the request whose handler completed last (0 = none)
    store,      \* remote service: raw records it lists
    nextId,     \* remote service: next identifier it assigns
    now,        \* the instant new Date() reads
    selectedMonth,  \* useState(() => ...) : month key of the selector (0 = '')
    utcOffset   \* deployment timezone: hours local time is ahead of UTC

vars == <<expenses, error, editingId, loading, reqs, last, store, nextId, now,
          selectedMonth, utcOffset>>

\* what the month selector and the charts read besides the collection
view == <<selectedMonth, utcOffset>>

\* ---------------------------------------------------------------- bounds
\* requests issued in one run (the initial load included)
MaxReq == 3
\* last instant the clock reaches
MaxTime == 5
\* raw records the remote service holds at start
MaxStore == 2
\* raw records of the longest listing the view is computed from
MaxListed == 3

\* ticks per calendar day: the granularity lost by split('T')[0]
DayLen == 2
\* the instant at which the component mounts
StartTime == 2 * DayLen

\* ------------------------------------------------------------ raw values
Num(n) == [num |-> TRUE, v |-> n]
NotNum == [num |-> FALSE, v |-> 0]

Raw(id, expenseId, title, category, amount, expenseDate, timestamp, timeStamp, note) ==
    [id |-> id, expenseId |-> expenseId, title |-> title, category |-> category,
     amount |-> amount, expenseDate |-> expenseDate, timestamp |-> timestamp,
     timeStamp |-> timeStamp, note |-> note]

\* a response body without any field: a bare success message
EmptyRaw == Raw(0, 0, "", "", NotNum, 0, 0, 0, "")

NoError == "null"
LoadError == "Failed to load expenses. Please check if the backend is running."
AddError == "Failed to add expense. Please try again."
DeleteError == "Failed to delete expense. Please try again."
UpdateError == "Failed to update expense: Network Error"

\* ------------------------------------------------------ JavaScript idioms
\* a || b on texts
OrText(a, b) == IF a # "" THEN a ELSE b
\* a || b on identifiers and instants
OrNat(a, b) == IF a # 0 THEN a ELSE b
\* Number(a) || b
NumberOr(a, b) == IF a.num /\ a.v # 0 THEN a.v ELSE b
\* s.split('T')[0] of a date-time string
DatePart(e) == e \div DayLen
\* new Date().toISOString().slice(0, 10)
Today(t) == t \div DayLen
\* the date-only string of day d, as sent in expenseDate
DateString(d) == d * DayLen

\* ------------------------------------------------------------- calendar
\* Day d >= 1 is the d-th day of 2024, so day 15 is 2024-01-15 and day 32
\* is 2024-02-01; a month key `${year}-${month}` is  year * 100 + month,
\* and 0 is the empty key.
HoursPerDay == 24
\* hours in one tick of the clock
TickHours == HoursPerDay \div DayLen

IsLeap(y) == (y % 4 = 0 /\ y % 100 # 0) \/ y % 400 = 0

DaysInMonth(y, m) ==
    IF m = 2 THEN (IF IsLeap(y) THEN 29 ELSE 28)
    ELSE IF m \in {4, 6, 9, 11} THEN 30 ELSE 31

\* key of the month that holds the n-th day counted from the first day of
\* month m of year y
RECURSIVE MonthFrom(_, _, _)
MonthFrom(y, m, n) ==
    IF n =< DaysInMonth(y, m) THEN y * 100 + m
    ELSE MonthFrom(IF m = 12 THEN y + 1 ELSE y, IF m = 12 THEN 1 ELSE m + 1,
                   n - DaysInMonth(y, m))

\* key of the month of calendar day d (day 0 is 2023-12-31)
MonthOfDay(d) == MonthFrom(2023, 12, d + 31)

\* the calendar day the instant t falls on in local time off hours ahead
\* of UTC
LocalDay(t, off) == (t * TickHours + off) \div HoursPerDay

\* `${d.getFullYear()}-${String(d.getMonth() + 1).padStart(2, '0')}` of the
\* Date d of instant t
monthKey(t, off) == MonthOfDay(LocalDay(t, off))

\* ------------------------------------------------------------- ordering
\* position at which x goes into s, sorted descending: after every record
\* whose timestamp is >= x's (the sort is stable)
RECURSIVE InsertDesc(_, _)
InsertDesc(s, x) ==
    IF s = <<>> THEN <<x>>
    ELSE IF s[1].timestamp >= x.timestamp
         THEN <<s[1]>> \o InsertDesc(Tail(s), x)
         ELSE <<x>> \o s

RECURSIVE SortFrom(_, _)
SortFrom(acc, s) ==
    IF s = <<>> THEN acc ELSE SortFrom(InsertDesc(acc, s[1]), Tail(s))

\* arr.sort((a, b) => new Date(b.timestamp) - new Date(a.timestamp))
SortDesc(s) == SortFrom(<<>>, s)

\* ------------------------------------------------------- canonical records
Canon(id, title, category, amount, date, timestamp, note) ==
    [id |-> id, title |-> title, category |-> category, amount |-> amount,
     date |-> date, timestamp |-> timestamp, note |-> note]

\* the values a form submits: {title, category, amount, date, note}
Sub(title, category, amount, date, note) ==
    [title |-> title, category |-> category, amount |-> amount,
     date |-> date, note |-> note]

NoSub == Sub("", "", 0, 0, "")

\* fetchExpenses: .filter(expense => expense && expense.id)
listAdmits(e) == e.id # 0

\* fetchExpenses: the .map(expense => ({...})) callback
normalizeListed(e, t) ==
    Canon(e.id,
          OrText(e.title, "Untitled"),
          OrText(e.category, "General"),
          NumberOr(e.amount, 0),
          IF e.expenseDate # 0 THEN DatePart(e.expenseDate) ELSE Today(t),
          OrNat(e.timestamp, OrNat(e.timeStamp, OrNat(e.expenseDate, t))),
          e.note)

\* fetchExpenses: mappedExpenses
fetchMapped(data, t) ==
    LET admitted == SelectSeq(data, listAdmits)
    IN SortDesc([k \in DOMAIN admitted |-> normalizeListed(admitted[k], t)])

\* handleAdd, fallback branch: .filter(expense => expense && expense.id)
reloadAdmits(e) == e.id # 0

\* handleAdd, fallback branch: the .map(expense => ({...})) callback
normalizeReloaded(e, t) ==
    Canon(e.id,
          OrText(e.title, "Untitled"),
          OrText(e.category, "General"),
          NumberOr(e.amount, 0),
          IF e.expenseDate # 0 THEN DatePart(e.expenseDate) ELSE Today(t),
          OrNat(e.timestamp, OrNat(e.timeStamp, OrNat(e.expenseDate, t))),
          e.note)

\* handleAdd, fallback branch: mappedExpenses
reloadMapped(data, t) ==
    LET admitted == SelectSeq(data, reloadAdmits)
    IN SortDesc([k \in DOMAIN admitted |-> normalizeReloaded(admitted[k], t)])

\* handleAdd: response.data.id || response.data.expenseId
createRecognizes(resp) == resp.id # 0 \/ resp.expenseId # 0

\* handleAdd: mappedExpense
mapCreated(resp, sub, t) ==
    Canon(OrNat(resp.id, resp.expenseId),
          OrText(resp.title, sub.title),
          OrText(resp.category, sub.category),
          NumberOr(resp.amount, sub.amount),
          IF resp.expenseDate # 0 THEN DatePart(resp.expenseDate) ELSE sub.date,
          OrNat(resp.timestamp, OrNat(resp.timeStamp, t)),
          OrText(resp.note, sub.note))

\* handleAdd: setExpenses(prev => [mappedExpense, ...prev].sort(...))
addUpdater(prev, m) == SortDesc(<<m>> \o prev)

\* mutant of mapUpdated: the timestamp chain of handleAdd, which has no
\* expenseDate step
mapUpdatedNoDateStep(resp, id, sub, t) ==
    IF resp.id # 0
    THEN Canon(resp.id,
               OrText(resp.title, sub.title),
               OrText(resp.category, sub.category),
               NumberOr(resp.amount, sub.amount),
               IF resp.expenseDate # 0 THEN DatePart(resp.expenseDate) ELSE sub.date,
               OrNat(resp.timestamp, OrNat(resp.timeStamp, t)),
               OrText(resp.note, sub.note))
    ELSE Canon(id, sub.title, sub.category, sub.amount, sub.date, t, sub.note)

\* handleUpdate: mappedExpense, both branches
mapUpdated(resp, id, sub, t) ==
    IF resp.id # 0
    THEN Canon(resp.id,
               OrText(resp.title, sub.title),
               OrText(resp.category, sub.category),
               NumberOr(resp.amount, sub.amount),
               IF resp.expenseDate # 0 THEN DatePart(resp.expenseDate) ELSE sub.date,
               OrNat(resp.timestamp,
                     OrNat(resp.timeStamp, OrNat(resp.expenseDate, t))),
               OrText(resp.note, sub.note))
    ELSE Canon(id, sub.title, sub.category, sub.amount, sub.date, t, sub.note)

\* mutant of updateUpdater: the comparison with id is lost, every record is
\* replaced
updateUpdaterAll(prev, id, m) ==
    SortDesc([k \in DOMAIN prev |-> m])

\* mutant of updateUpdater: the replaced record stays where it was, unsorted
updateUpdaterUnsorted(prev, id, m) ==
    [k \in DOMAIN prev |-> IF prev[k].id = id THEN m ELSE prev[k]]

\* handleUpdate: setExpenses(prev => prev.map(...).sort(...))
updateUpdater(prev, id, m) ==
    SortDesc([k \in DOMAIN prev |-> IF prev[k].id = id THEN m ELSE prev[k]])

\* mutant of deleteUpdater: the test is inverted, only the record of id stays
deleteUpdaterInverted(prev, id) == SelectSeq(prev, LAMBDA e : e.id = id)

\* handleDelete: setExpenses(prev => prev.filter(e => e.id !== id))
deleteUpdater(prev, id) == SelectSeq(prev, LAMBDA e : e.id # id)

\* ---------------------------------------------------------------- the view
\* String.prototype.trim on the texts of the model: a text padded with
\* white space loses the padding, any other text is left as it is
trim(s) ==
    CASE s = " " -> ""
      [] s = " Food " -> "Food"
      [] s = "General " -> "General"
      [] OTHER -> s

\* filteredExpenses, month step: the filter callback
monthAdmits(e, key, off) ==
    IF e.date = 0 THEN FALSE
    ELSE monthKey(DateString(e.date), off) = key

\* filteredExpenses; the search text is '' as at mount, so the search step
\* is not taken
filteredExpenses(s, key, off) ==
    IF key # 0 THEN SelectSeq(s, LAMBDA e : monthAdmits(e, key, off)) ELSE s

\* Array.from(months).sort().reverse()
RECURSIVE sortReverse(_)
sortReverse(S) ==
    IF S = {} THEN <<>>
    ELSE LET m == CHOOSE x \in S : \A y \in S : y =< x
         IN <<m>> \o sortReverse(S \ {m})

\* availableMonths: the options of the month selector
availableMonths(s, off) ==
    sortReverse({ monthKey(DateString(s[k].date), off) :
                     k \in {j \in DOMAIN s : s[j].date # 0} })

\* mutant of categoryKey: the category is not trimmed
categoryKeyUntrimmed(e) == OrText(e.category, "General")

\* categoryAgg: (e.category || 'General').trim() || 'General'
categoryKey(e) == OrText(trim(OrText(e.category, "General")), "General")

\* categoryAgg: map.set(key, (map.get(key) || 0) + Number(e.amount || 0)) on
\* a Map kept as its keys and values in insertion order
mapSet(agg, key, amount) ==
    IF \E i \in DOMAIN agg.labels : agg.labels[i] = key
    THEN [labels |-> agg.labels,
          data |-> [i \in DOMAIN agg.data |->
                       IF agg.labels[i] = key THEN agg.data[i] + amount
                       ELSE agg.data[i]]]
    ELSE [labels |-> Append(agg.labels, key), data |-> Append(agg.data, amount)]

RECURSIVE categoryAggFrom(_, _)
categoryAggFrom(agg, f) ==
    IF f = <<>> THEN agg
    ELSE categoryAggFrom(mapSet(agg, categoryKey(f[1]), f[1].amount), Tail(f))

\* categoryAgg: { labels, data } of the filtered subset f
categoryAgg(f) == categoryAggFrom([labels |-> <<>>, data |-> <<>>], f)

\* ------------------------------------------------- the handlers' outcomes
\* fetchExpenses, after the await: the try body, or the catch
fetchExpensesOutcome(r, t) ==
    IF r.ok
    THEN [expenses |-> fetchMapped(r.data, t), error |-> NoError]
    ELSE [expenses |-> <<>>, error |-> LoadError]

\* handleAdd, after await addExpense(...) with an identifier-bearing
\* response, or its catch
handleAddOutcome(prev, r, t) ==
    IF r.ok
    THEN [expenses |-> addUpdater(prev, mapCreated(r.data[1], r.sub, t)),
          error |-> NoError]
    ELSE [expenses |-> prev, error |-> AddError]

\* mutant of handleAddReloadOutcome: the listing is merged into the previous
\* collection instead of replacing it
handleAddReloadOutcomeMerging(prev, r, t) ==
    IF r.ok
    THEN [expenses |-> prev \o reloadMapped(r.data, t), error |-> NoError]
    ELSE [expenses |-> prev, error |-> AddError]

\* handleAdd, after await getAllExpenses() of the fallback, or its catch
handleAddReloadOutcome(prev, r, t) ==
    IF r.ok
    THEN [expenses |-> reloadMapped(r.data, t), error |-> NoError]
    ELSE [expenses |-> prev, error |-> AddError]

\* mutant of handleUpdateOutcome: the catch clears the collection, as the
\* catch of fetchExpenses does
handleUpdateOutcomeClearing(prev, edit, r, t) ==
    IF r.ok
    THEN [expenses |-> updateUpdater(prev, r.id, mapUpdated(r.data[1], r.id, r.sub, t)),
          editingId |-> 0, error |-> NoError]
    ELSE [expenses |-> <<>>, editingId |-> edit, error |-> UpdateError]

\* mutant of handleUpdateOutcome: success closes the edit mode of the updated
\* record only, and leaves a marker that points at another record
handleUpdateOutcomeKeeping(prev, edit, r, t) ==
    IF r.ok
    THEN [expenses |-> updateUpdater(prev, r.id, mapUpdated(r.data[1], r.id, r.sub, t)),
          editingId |-> IF edit = r.id THEN 0 ELSE edit, error |-> NoError]
    ELSE [expenses |-> prev, editingId |-> edit, error |-> UpdateError]

\* handleUpdate, after await updateExpense(...), or its catch
handleUpdateOutcome(prev, edit, r, t) ==
    IF r.ok
    THEN [expenses |-> updateUpdater(prev, r.id, mapUpdated(r.data[1], r.id, r.sub, t)),
          editingId |-> 0, error |-> NoError]
    ELSE [expenses |-> prev, editingId |-> edit, error |-> UpdateError]

\* mutant of handleDeleteOutcome: the catch logs the failure and surfaces
\* no message
handleDeleteOutcomeSilent(prev, r) ==
    IF r.ok
    THEN [expenses |-> deleteUpdater(prev, r.id), error |-> NoError]
    ELSE [expenses |-> prev, error |-> NoError]

\* handleDelete, after await deleteExpense(id), or its catch
handleDeleteOutcome(prev, r) ==
    IF r.ok
    THEN [expenses |-> deleteUpdater(prev, r.id), error |-> NoError]
    ELSE [expenses |-> prev, error |-> DeleteError]

\* ------------------------------------------------------ the remote service
\* records the service may hold before the client ever wrote to it
Pool ==
    << Raw(1, 0, "Rent", "Bills", Num(7), 3, 0, 5, "may"),
       Raw(2, 0, "", "", NotNum, 2, 0, 0, ""),
       Raw(0, 3, "Tea", "Food", Num(2), 0, 4, 0, ""),
       Raw(4, 0, "Refund", "", Num(0 - 5), 0, 0, 0, ""),
       Raw(0, 0, "Junk", "", Num(0), 0, 0, 0, "") >>

\* the service starts with MaxStore consecutive records of the pool
InitialStores ==
    { SubSeq(Pool, i, i + MaxStore - 1) : i \in 1..(Len(Pool) - MaxStore + 1) }

\* the identifier the service knows a raw record by
KeyOf(e) == OrNat(e.id, e.expenseId)

FirstNewId ==
    1 + CHOOSE m \in {KeyOf(Pool[k]) : k \in DOMAIN Pool} :
            \A k \in DOMAIN Pool : KeyOf(Pool[k]) =< m

\* what a form can submit: ExpenseForm.handleSubmit (title non-empty,
\* amount > 0, category || 'General')
AddSubs ==
    { Sub("Taxi", "General", 3, 2, "cab") }

\* what an edited row can submit: ExpenseRow.handleSave (title non-empty,
\* amount > 0)
EditSubs ==
    { Sub("Lunch", "", 2, 0, ""),
      Sub("Rent", "Bills", 9, 3, "june") }

\* the shapes in which the service answers a create or an update
Shapes == {"full", "alt", "dated", "bare", "message"}
\* an update answered under expenseId reads like a message: both lack id
UpdateShapes == Shapes \ {"alt"}

Shaped(rec, shape) ==
    CASE shape = "full" -> rec
      [] shape = "alt" ->
            [rec EXCEPT !.id = 0, !.expenseId = rec.id,
                        !.timestamp = 0, !.timeStamp = rec.timestamp]
      [] shape = "dated" -> [rec EXCEPT !.timestamp = 0, !.timeStamp = 0]
      [] shape = "bare" -> [EmptyRaw EXCEPT !.id = rec.id]
      [] OTHER -> EmptyRaw

\* a request: the call's arguments, where it stands, and the response in
\* flight; of a completed request, from is the await its handler completed
\* from and known the number of requests issued by then
Req(op, id, sub) ==
    [op |-> op, id |-> id, sub |-> sub, phase |-> "sent", ok |-> TRUE,
     data |-> <<>>, known |-> 0, from |-> ""]

Answer(r, phase, ok, data) ==
    reqs' = [reqs EXCEPT ![r].phase = phase, ![r].ok = ok, ![r].data = data]

\* the handler of r completes; what it consumed is dropped, but for the
\* response body of an update, kept for reference
Finish(r) ==
    /\ reqs' = [reqs EXCEPT ![r].phase = "done",
                            ![r].data = IF reqs[r].op = "update" /\ reqs[r].ok
                                        THEN reqs[r].data ELSE <<>>,
                            ![r].known = Len(reqs), ![r].from = reqs[r].phase]
    /\ last' = r

\* the request awaits the service: its first call, or the fallback listing
Awaiting(r) == reqs[r].phase \in {"sent", "listing"}
AnsweredPhase(r) == IF reqs[r].phase = "sent" THEN "replied" ELSE "listed"

\* ------------------------------------------------------------ the actions
Init ==
    /\ expenses = <<>>
    /\ error = NoError
    /\ editingId = 0
    /\ loading = TRUE
    /\ reqs = << Req("load", 0, NoSub) >>
    /\ last = 0
    /\ store \in InitialStores
    /\ nextId = FirstNewId
    /\ now = StartTime
    /\ utcOffset = 0
    /\ selectedMonth = monthKey(now, utcOffset)

\* a row is rendered when the list is loaded and some month of the selector
\* shows it: a record without a date passes no month filter
Rendered(e) == ~loading /\ e.date # 0

\* time passes
Tick ==
    /\ now < MaxTime
    /\ now' = now + 1
    /\ UNCHANGED <<view, expenses, error, editingId, loading, reqs, last, store, nextId>>

\* onEdit={() => setEditingId(expense.id)}
onEdit(k) ==
    /\ Rendered(expenses[k])
    /\ editingId # expenses[k].id
    /\ editingId' = expenses[k].id
    /\ UNCHANGED <<view, expenses, error, loading, reqs, last, store, nextId, now>>

\* onCancelEdit={() => setEditingId(null)}
onCancelEdit(k) ==
    /\ Rendered(expenses[k])
    /\ editingId = expenses[k].id
    /\ editingId' = 0
    /\ UNCHANGED <<view, expenses, error, loading, reqs, last, store, nextId, now>>

\* handleAdd up to await addExpense(dataToSend)
handleAddCall(sub) ==
    /\ Len(reqs) < MaxReq
    /\ reqs' = Append(reqs, Req("create", 0, sub))
    /\ UNCHANGED <<view, expenses, error, editingId, loading, last, store, nextId, now>>

\* onSave of the row in edit mode: handleUpdate up to await updateExpense(...)
handleUpdateCall(k, sub) ==
    /\ Len(reqs) < MaxReq
    /\ Rendered(expenses[k])
    /\ editingId = expenses[k].id
    /\ reqs' = Append(reqs, Req("update", expenses[k].id, sub))
    /\ UNCHANGED <<view, expenses, error, editingId, loading, last, store, nextId, now>>

\* onDelete of a row not in edit mode: handleDelete up to await deleteExpense(id)
handleDeleteCall(k) ==
    /\ Len(reqs) < MaxReq
    /\ Rendered(expenses[k])
    /\ editingId # expenses[k].id
    /\ reqs' = Append(reqs, Req("delete", expenses[k].id, NoSub))
    /\ UNCHANGED <<view, expenses, error, editingId, loading, last, store, nextId, now>>

\* the service answers getAllExpenses()
getAllExpenses(r) ==
    /\ \/ reqs[r].op = "load" /\ reqs[r].phase = "sent"
       \/ reqs[r].op = "create" /\ reqs[r].phase = "listing"
    /\ Answer(r, AnsweredPhase(r), TRUE, store)
    /\ UNCHANGED <<view, expenses, error, editingId, loading, last, store, nextId, now>>

\* the service answers addExpense(expense): it stores the record under a
\* new identifier and answers in one of the shapes
addExpense(r, shape) ==
    /\ reqs[r].op = "create" /\ reqs[r].phase = "sent"
    /\ LET sub == reqs[r].sub
           rec == Raw(nextId, 0, sub.title, sub.category, Num(sub.amount),
                      DateString(sub.date), now, 0, sub.note)
       IN /\ store' = Append(store, rec)
          /\ Answer(r, "replied", TRUE, << Shaped(rec, shape) >>)
    /\ nextId' = nextId + 1
    /\ UNCHANGED <<view, expenses, error, editingId, loading, last, now>>

\* the service answers updateExpense(id, expense): it replaces the fields
\* of the record it holds under id
updateExpense(r, shape) ==
    /\ reqs[r].op = "update" /\ reqs[r].phase = "sent"
    /\ \E k \in DOMAIN store :
          /\ KeyOf(store[k]) = reqs[r].id
          /\ LET sub == reqs[r].sub
                 rec == Raw(reqs[r].id, 0, sub.title, sub.category, Num(sub.amount),
                            DateString(sub.date), store[k].timestamp,
                            store[k].timeStamp, sub.note)
             IN /\ store' = [store EXCEPT ![k] = rec]
                /\ Answer(r, "replied", TRUE, << Shaped(rec, shape) >>)
    /\ UNCHANGED <<view, expenses, error, editingId, loading, last, nextId, now>>

\* the service answers deleteExpense(id)
deleteExpense(r) ==
    /\ reqs[r].op = "delete" /\ reqs[r].phase = "sent"
    /\ \E k \in DOMAIN store : KeyOf(store[k]) = reqs[r].id
    /\ store' = SelectSeq(store, LAMBDA e : KeyOf(e) # reqs[r].id)
    /\ Answer(r, "replied", TRUE, <<>>)
    /\ UNCHANGED <<view, expenses, error, editingId, loading, last, nextId, now>>

\* the call is rejected: no connection, or an error status of the service
requestFails(r) ==
    /\ Awaiting(r)
    /\ Answer(r, AnsweredPhase(r), FALSE, <<>>)
    /\ UNCHANGED <<view, expenses, error, editingId, loading, last, store, nextId, now>>

\* fetchExpenses from the await on
fetchExpensesResponse(r) ==
    /\ reqs[r].op = "load" /\ reqs[r].phase = "replied"
    /\ LET out == fetchExpensesOutcome(reqs[r], now)
       IN /\ expenses' = out.expenses
          /\ error' = out.error
    /\ loading' = FALSE
    /\ Finish(r)
    /\ UNCHANGED <<view, editingId, store, nextId, now>>

\* handleAdd from await addExpense(...) on, when the response carries an
\* identifier or the call failed
handleAddResponse(r) ==
    /\ reqs[r].op = "create" /\ reqs[r].phase = "replied"
    /\ IF reqs[r].ok THEN createRecognizes(reqs[r].data[1]) ELSE TRUE
    /\ LET out == handleAddOutcome(expenses, reqs[r], now)
       IN /\ expenses' = out.expenses
          /\ error' = out.error
    /\ Finish(r)
    /\ UNCHANGED <<view, editingId, loading, store, nextId, now>>

\* handleAdd from await addExpense(...) up to await getAllExpenses(), when
\* the response carries no identifier
handleAddRefetch(r) ==
    /\ reqs[r].op = "create" /\ reqs[r].phase = "replied"
    /\ reqs[r].ok /\ ~createRecognizes(reqs[r].data[1])
    /\ reqs' = [reqs EXCEPT ![r].phase = "listing", ![r].data = <<>>]
    /\ UNCHANGED <<view, expenses, error, editingId, loading, last, store, nextId, now>>

\* handleAdd from await getAllExpenses() on
handleAddReload(r) ==
    /\ reqs[r].op = "create" /\ reqs[r].phase = "listed"
    /\ LET out == handleAddReloadOutcome(expenses, reqs[r], now)
       IN /\ expenses' = out.expenses
          /\ error' = out.error
    /\ Finish(r)
    /\ UNCHANGED <<view, editingId, loading, store, nextId, now>>

\* handleUpdate from await updateExpense(...) on
handleUpdateResponse(r) ==
    /\ reqs[r].op = "update" /\ reqs[r].phase = "replied"
    /\ LET out == handleUpdateOutcome(expenses, editingId, reqs[r], now)
       IN /\ expenses' = out.expenses
          /\ editingId' = out.editingId
          /\ error' = out.error
    /\ Finish(r)
    /\ UNCHANGED <<view, loading, store, nextId, now>>

\* handleDelete from await deleteExpense(id) on
handleDeleteResponse(r) ==
    /\ reqs[r].op = "delete" /\ reqs[r].phase = "replied"
    /\ LET out == handleDeleteOutcome(expenses, reqs[r])
       IN /\ expenses' = out.expenses
          /\ error' = out.error
    /\ Finish(r)
    /\ UNCHANGED <<view, editingId, loading, store, nextId, now>>

Next ==
    \/ Tick
    \/ \E k \in DOMAIN expenses : onEdit(k)
    \/ \E k \in DOMAIN expenses : onCancelEdit(k)
    \/ \E sub \in AddSubs : handleAddCall(sub)
    \/ \E k \in DOMAIN expenses, sub \in EditSubs : handleUpdateCall(k, sub)
    \/ \E k \in DOMAIN expenses : handleDeleteCall(k)
    \/ \E r \in DOMAIN reqs : getAllExpenses(r)
    \/ \E r \in DOMAIN reqs, shape \in Shapes : addExpense(r, shape)
    \/ \E r \in DOMAIN reqs, shape \in UpdateShapes : updateExpense(r, shape)
    \/ \E r \in DOMAIN reqs : deleteExpense(r)
    \/ \E r \in DOMAIN reqs : requestFails(r)
    \/ \E r \in DOMAIN reqs : fetchExpensesResponse(r)
    \/ \E r \in DOMAIN reqs : handleAddResponse(r)
    \/ \E r \in DOMAIN reqs : handleAddRefetch(r)
    \/ \E r \in DOMAIN reqs : handleAddReload(r)
    \/ \E r \in DOMAIN reqs : handleUpdateResponse(r)
    \/ \E r \in DOMAIN reqs : handleDeleteResponse(r)

Spec == Init /\ [][Next]_vars

\* ------------------------------------------------------------- properties
\* the handler of request r completes in this step
HandlerCompletes(r) == reqs[r].phase # "done" /\ reqs'[r].phase = "done"

Descending(s) ==
    \A i \in DOMAIN s, j \in DOMAIN s : i < j => s[i].timestamp >= s[j].timestamp

Mutations == {"create", "update", "delete"}

FailureMessage(op) ==
    CASE op = "load" -> LoadError
      [] op = "create" -> AddError
      [] op = "update" -> UpdateError
      [] OTHER -> DeleteError

\* C1. Ordering invariant: in every state, hence after every handler that
\* writes the collection under any interleaving of the requests in flight,
\* each record's timestamp is >= the timestamp of every record after it.
C1_OrderingInvariant == Descending(expenses)

\* C1 witness: an update has completed and left at least two records with
\* different timestamps in the collection, the edited one not in front.
C1_Witness ==
    /\ last # 0
    /\ reqs[last].op = "update" /\ reqs[last].ok
    /\ Len(expenses) >= 2
    /\ expenses[1].timestamp > expenses[2].timestamp
    /\ expenses[2].id = reqs[last].id

\* C2. Identifier uniqueness: in every reachable state no two records of
\* the collection have the same id.
C2_UniqueIds ==
    \A i \in DOMAIN expenses, j \in DOMAIN expenses :
        i # j => expenses[i].id # expenses[j].id

\* C3. Mutation failure is non-destructive: when the handler of a create,
\* update or delete completes on a failed call (the listing call of the
\* create fallback included), the collection is left as it was and the
\* error is the message of that operation.
C3_FailureNonDestructive ==
    [][\A r \in DOMAIN reqs :
          (HandlerCompletes(r) /\ ~reqs[r].ok /\ reqs[r].op \in Mutations)
             => (expenses' = expenses /\ error' = FailureMessage(reqs[r].op))]_vars

\* C3 witness: the last handler to complete was that of a failed update,
\* and the collection still holds records.
C3_Witness ==
    /\ last # 0
    /\ reqs[last].op = "update" /\ ~reqs[last].ok
    /\ expenses # <<>>
    /\ error = UpdateError

\* C4. Amount invariant: every record of the collection has an amount that
\* is a number >= 0, whichever path admitted it and whatever raw amount the
\* service returned.
C4_AmountNonNegative ==
    \A k \in DOMAIN expenses : expenses[k].amount >= 0

\* the handler of create r completes in this step on the answer to the
\* listing call of its fallback
ReloadCompletes(r) ==
    /\ reqs[r].op = "create" /\ reqs[r].phase = "listed" /\ reqs[r].ok
    /\ HandlerCompletes(r)

\* the collection s holds a record with the title and amount of sub
HoldsSubmitted(s, sub) ==
    \E k \in DOMAIN s : s[k].title = sub.title /\ s[k].amount = sub.amount

\* the listing data holds, under id, a raw record with the title and amount of sub
ListsSubmitted(data, sub) ==
    \E j \in DOMAIN data :
        /\ data[j].id # 0
        /\ data[j].title = sub.title
        /\ data[j].amount = Num(sub.amount)

\* the collection s is the listing data, one record for each raw record
\* that carries id, and nothing of what the collection held before
ReplacedBy(s, data) ==
    /\ Len(s) = Cardinality({j \in DOMAIN data : data[j].id # 0})
    /\ \A j \in DOMAIN data :
          data[j].id # 0 =>
             Cardinality({k \in DOMAIN s : s[k].id = data[j].id})
                = Cardinality({i \in DOMAIN data : data[i].id = data[j].id})

\* C5 as stated. Create fallback: when the create response carries no
\* recognizable identifier, the handler replaces the collection by the
\* normalized listing, and the result is in descending timestamp order and
\* holds a record with the submitted title and amount.
C5_FallbackHoldsSubmitted ==
    [][\A r \in DOMAIN reqs :
          ReloadCompletes(r) =>
             /\ ReplacedBy(expenses', reqs[r].data)
             /\ Descending(expenses')
             /\ HoldsSubmitted(expenses', reqs[r].sub)]_vars

\* C5 as amended. Create fallback: the handler replaces the collection by
\* the normalized listing, the result is in descending timestamp order, and
\* it holds a record with the submitted title and amount whenever the
\* listing the service returned holds such a record under id (the created
\* record was not deleted or edited before the listing was served).
C5_FallbackHoldsListed ==
    [][\A r \in DOMAIN reqs :
          ReloadCompletes(r) =>
             /\ ReplacedBy(expenses', reqs[r].data)
             /\ Descending(expenses')
             /\ ListsSubmitted(reqs[r].data, reqs[r].sub)
                   => HoldsSubmitted(expenses', reqs[r].sub)]_vars

\* C5 witness: the fallback of a create has completed on a listing, and the
\* collection holds the created record among others.
C5_Witness ==
    /\ last # 0
    /\ reqs[last].op = "create" /\ reqs[last].ok /\ reqs[last].from = "listed"
    /\ Len(expenses) >= 2
    /\ HoldsSubmitted(expenses, reqs[last].sub)

\* the handler of update r completes in this step on a successful response
UpdateCompletes(r) ==
    /\ reqs[r].op = "update" /\ reqs[r].phase = "replied" /\ reqs[r].ok
    /\ HandlerCompletes(r)

\* a response body that carries id and neither timestamp nor timeStamp
NoInstant(resp) == resp.id # 0 /\ resp.timestamp = 0 /\ resp.timeStamp = 0

Holds(s, id) == \E k \in DOMAIN s : s[k].id = id

\* instant t is not earlier than the timestamp of any record of s but id's
NotEarlier(t, s, id) ==
    \A k \in DOMAIN s : s[k].id # id => t >= s[k].timestamp

\* instant t is later than the timestamp of every record of s but id's
Later(t, s, id) ==
    \A k \in DOMAIN s : s[k].id # id => t > s[k].timestamp

\* C6 as stated. Update promotion: when the update response carries the
\* identifier and no ingestion instant, with or without an occurrence
\* date, the replacing record's timestamp is the current instant, and the
\* edited record is first after the re-sort whenever the current instant
\* is not earlier than every other record's timestamp.
C6_PromotedToNow ==
    [][\A r \in DOMAIN reqs :
          (UpdateCompletes(r) /\ NoInstant(reqs[r].data[1])) =>
             /\ \A k \in DOMAIN expenses' :
                   expenses'[k].id = reqs[r].id => expenses'[k].timestamp = now
             /\ (Holds(expenses, reqs[r].id) /\ NotEarlier(now, expenses, reqs[r].id))
                   => expenses'[1].id = reqs[r].id]_vars

\* the timestamp handleUpdate gives the record for a response without instant
PromotedTo(resp, t) == IF resp.expenseDate # 0 THEN resp.expenseDate ELSE t

\* C6 as amended. Update promotion: when the update response carries the
\* identifier and no ingestion instant, the replacing record's timestamp is
\* the response's occurrence date when it carries one and the current
\* instant only when it carries none; the edited record is first after the
\* re-sort whenever that timestamp is later than every other record's.
C6_PromotedToDateOrNow ==
    [][\A r \in DOMAIN reqs :
          (UpdateCompletes(r) /\ NoInstant(reqs[r].data[1])) =>
             LET ts == PromotedTo(reqs[r].data[1], now)
             IN /\ \A k \in DOMAIN expenses' :
                      expenses'[k].id = reqs[r].id => expenses'[k].timestamp = ts
                /\ (Holds(expenses, reqs[r].id) /\ Later(ts, expenses, reqs[r].id))
                      => expenses'[1].id = reqs[r].id]_vars

\* C6 witness: an update answered with the identifier alone has completed
\* and moved the edited record from behind to the front of the collection.
C6_Witness ==
    /\ last # 0
    /\ reqs[last].op = "update" /\ reqs[last].ok
    /\ NoInstant(reqs[last].data[1])
    /\ reqs[last].data[1].expenseDate = 0
    /\ Len(expenses) >= 2
    /\ expenses[1].id = reqs[last].id
    /\ expenses[1].timestamp = now
    /\ expenses[1].timestamp > expenses[2].timestamp

\* the handler of delete r completes in this step on a successful response
DeleteCompletes(r) ==
    /\ reqs[r].op = "delete" /\ reqs[r].phase = "replied" /\ reqs[r].ok
    /\ HandlerCompletes(r)

\* the positions of s whose record has another id than id
Others(s, id) == {k \in DOMAIN s : s[k].id # id}

\* C7. Delete effect: when a delete of identifier i succeeds, the
\* collection after the handler is the collection before it without the
\* records of id i: every other record is kept, unchanged and in the same
\* relative order, and no record is added.
C7_DeleteEffect ==
    [][\A r \in DOMAIN reqs :
          DeleteCompletes(r) =>
             LET keep == Others(expenses, reqs[r].id)
             IN /\ Len(expenses') = Cardinality(keep)
                /\ \A k \in keep :
                      expenses'[Cardinality({j \in keep : j =< k})] = expenses[k]]_vars

\* C7 witness: a delete has completed successfully; the collection holds
\* other records and none of the deleted identifier.
C7_Witness ==
    /\ last # 0
    /\ reqs[last].op = "delete" /\ reqs[last].ok
    /\ expenses # <<>>
    /\ ~Holds(expenses, reqs[last].id)

\* C8. Error retention: the surfaced error is determined by the operation
\* that completed last: absent if it succeeded (or none completed yet),
\* that operation's message if it failed.
C8_ErrorOfLastCompleted ==
    error = IF last = 0 \/ reqs[last].ok THEN NoError
            ELSE FailureMessage(reqs[last].op)

\* C8 witness: a success that completed after the failure of another
\* request has cleared the earlier message.
C8_Witness ==
    /\ last # 0
    /\ reqs[last].ok
    /\ error = NoError
    /\ \E r \in DOMAIN reqs : reqs[r].phase = "done" /\ ~reqs[r].ok

\* the handler that consumes a listing completes in this step for r: the
\* initial load, or the fallback of a create
ListingCompletes(r) ==
    /\ \/ reqs[r].op = "load" /\ reqs[r].phase = "replied"
       \/ reqs[r].op = "create" /\ reqs[r].phase = "listed"
    /\ reqs[r].ok
    /\ HandlerCompletes(r)

\* a raw record carries an identifier under one of the two names the create
\* path accepts
Recognizable(e) == e.id # 0 \/ e.expenseId # 0

\* C9. Identifier admission: on the initial load and on the create-fallback
\* reload a raw record is admitted if and only if it carries an identifier
\* under either accepted name, the names recognized on the create path.
C9_AdmitsRecognizable ==
    [][\A r \in DOMAIN reqs :
          ListingCompletes(r) =>
             \A j \in DOMAIN reqs[r].data :
                 Recognizable(reqs[r].data[j])
                    <=> Holds(expenses', OrNat(reqs[r].data[j].id,
                                               reqs[r].data[j].expenseId))]_vars

\* record e holds the values an update submitted
HoldsValues(e, sub) ==
    /\ e.title = sub.title
    /\ e.category = sub.category
    /\ e.amount = sub.amount
    /\ e.date = sub.date
    /\ e.note = sub.note

\* number of occurrences of record e in s
Count(s, e) == Cardinality({k \in DOMAIN s : s[k] = e})

\* update r was in flight when update q completed
Overlapped(q, r) ==
    /\ q # r
    /\ reqs[q].phase = "done" /\ reqs[q].op = "update" /\ reqs[q].ok
    /\ r =< reqs[q].known

\* C10. Concurrent edits to different records: the handler of an update
\* changes only the records of its own identifier (every other record is
\* unchanged, none is added or lost) and gives them the values of its own
\* update; when it completes right after an update to another identifier
\* that was in flight at the same time, in either order of arrival, the
\* record of that other update still holds the other update's values.
C10_ConcurrentEdits ==
    [][\A r \in DOMAIN reqs :
          UpdateCompletes(r) =>
             /\ Len(expenses') = Len(expenses)
             /\ \A k \in Others(expenses, reqs[r].id) :
                   Count(expenses', expenses[k]) = Count(expenses, expenses[k])
             /\ \A k \in Others(expenses', reqs[r].id) :
                   Count(expenses, expenses'[k]) = Count(expenses', expenses'[k])
             /\ \A k \in DOMAIN expenses' :
                   expenses'[k].id = reqs[r].id => HoldsValues(expenses'[k], reqs[r].sub)
             /\ (last # 0 /\ Overlapped(last, r) /\ reqs[last].id # reqs[r].id) =>
                   \A k \in DOMAIN expenses' :
                       expenses'[k].id = reqs[last].id
                          => HoldsValues(expenses'[k], reqs[last].sub)]_vars

\* C10 witness: two updates to different identifiers were in flight at the
\* same time, the response to the later one arrived first, both handlers
\* have completed, and both edited records are in the collection.
C10_Witness ==
    /\ last # 0
    /\ reqs[last].op = "update" /\ reqs[last].ok
    /\ \E q \in DOMAIN reqs :
          /\ q > last
          /\ Overlapped(q, last)
          /\ reqs[q].id # reqs[last].id
          /\ \E k \in DOMAIN expenses :
                expenses[k].id = reqs[q].id /\ HoldsValues(expenses[k], reqs[q].sub)
          /\ \E k \in DOMAIN expenses :
                expenses[k].id = reqs[last].id /\ HoldsValues(expenses[k], reqs[last].sub)

\* ------------------------------------------------ the view, on its own
\* The selector and the charts read the collection, the selected month and
\* the local timezone only.  ViewSpec starts from a loaded collection, with
\* or without one edit handled, in one of the timezones, and lets the user
\* move the month selector.

\* deployment timezones: behind UTC, UTC, ahead of UTC
Offsets == {0 - 5, 0, 2}

\* records the service lists: 2024-01-15 (stamped by the service later on),
\* 2024-02-01, noon of 2024-01-31, and two without an occurrence date
ViewPool ==
    << Raw(1, 0, "Lunch", "Food", Num(10), 30, 0, 65, ""),
       Raw(2, 0, "Bus", "", Num(5), 64, 0, 0, ""),
       Raw(3, 0, "Tea", " Food ", Num(2), 63, 0, 0, ""),
       Raw(4, 0, "Gift", " ", Num(4), 0, 61, 0, ""),
       Raw(5, 0, "Rent", "General ", Num(7), 0, 0, 29, "") >>

\* the service lists up to MaxListed consecutive records of the pool
ViewStores ==
    { st \in { SubSeq(ViewPool, i, j) : i \in DOMAIN ViewPool, j \in DOMAIN ViewPool } :
         Len(st) \in 1..MaxListed }

\* what an edited row can submit: a category left empty, a date cleared
ViewSubs ==
    { Sub("Bus", "", 5, 31, ""),
      Sub("Tea", " ", 3, 0, "") }

\* the instants of mount: midnight UTC of 2024-02-01, and of 2024-02-02
ViewTimes == {64, 66}

\* the collection after the load of listing st at instant t
Loaded(st, t) == fetchExpensesOutcome([ok |-> TRUE, data |-> st], t).expenses

\* the collection c after an update of id with sub, answered by a message
Edited(c, id, sub, t) ==
    updateUpdater(c, id, mapUpdated(EmptyRaw, id, sub, t))

ViewInit ==
    /\ store \in ViewStores
    /\ now \in ViewTimes
    /\ utcOffset \in Offsets
    /\ selectedMonth = monthKey(now, utcOffset)
    /\ \/ expenses = Loaded(store, now)
       \/ \E k \in DOMAIN store, sub \in ViewSubs :
             /\ store[k].id # 0
             /\ expenses = Edited(Loaded(store, now), store[k].id, sub, now)
    /\ error = NoError
    /\ editingId = 0
    /\ loading = FALSE
    /\ reqs = <<>>
    /\ last = 0
    /\ nextId = 1 + Len(ViewPool)

\* onChange={e => setSelectedMonth(e.target.value)} on one of the options
setSelectedMonth(m) ==
    /\ ~loading
    /\ m # selectedMonth
    /\ selectedMonth' = m
    /\ UNCHANGED <<expenses, error, editingId, loading, reqs, last, store,
                   nextId, now, utcOffset>>

ViewNext ==
    \E i \in DOMAIN availableMonths(expenses, utcOffset) :
        setSelectedMonth(availableMonths(expenses, utcOffset)[i])

ViewSpec == ViewInit /\ [][ViewNext]_vars

\* the subset the list and the charts show
Visible == filteredExpenses(expenses, selectedMonth, utcOffset)

\* record e is in the sequence f
In(e, f) == \E j \in DOMAIN f : f[j] = e

\* C11. Month filter: with a selected month key, a record is in the visible
\* subset if and only if it has a date and the calendar year and month of
\* that date, as written, equal the selected key, in every deployment
\* timezone; a record with no date is never visible.  (Of the dates
\* 2024-01-15, 2024-02-01 and 2024-01-31 under key 2024-01, exactly the
\* first and the third pass.)
C11_MonthFilter ==
    selectedMonth # 0 =>
        \A k \in DOMAIN expenses :
            In(expenses[k], Visible)
               <=> (expenses[k].date # 0
                    /\ MonthOfDay(expenses[k].date) = selectedMonth)

\* ------------------------------------------ properties of the handlers, II
\* the handler of create r completes in this step on a response that
\* carries an identifier
CreateCompletes(r) ==
    /\ reqs[r].op = "create" /\ reqs[r].phase = "replied" /\ reqs[r].ok
    /\ HandlerCompletes(r)

\* the timestamp the fallback priority gives a record built at instant t
\* from the raw record e: the backend's instant, else the occurrence date,
\* else the ingest moment
ByPriority(e, t) ==
    IF e.timestamp # 0 THEN e.timestamp
    ELSE IF e.timeStamp # 0 THEN e.timeStamp
    ELSE IF e.expenseDate # 0 THEN e.expenseDate
    ELSE t

\* position k of the collection after the step holds a record the step added
Added(k) == Count(expenses', expenses'[k]) > Count(expenses, expenses'[k])

\* C12. Timestamp fallback priority: on every path that builds a canonical
\* record (initial load, create response, create-fallback reload, update
\* response) the record's timestamp is the backend-provided instant when
\* the raw record carries one, otherwise its occurrence date when it carries
\* one, otherwise the ingest moment.
C12_TimestampPriority ==
    [][\A r \in DOMAIN reqs :
          /\ ListingCompletes(r) =>
                \A j \in DOMAIN reqs[r].data :
                    reqs[r].data[j].id # 0 =>
                       \E k \in DOMAIN expenses' :
                           /\ expenses'[k].id = reqs[r].data[j].id
                           /\ expenses'[k].timestamp = ByPriority(reqs[r].data[j], now)
          /\ CreateCompletes(r) =>
                \E k \in DOMAIN expenses' :
                    /\ Added(k)
                    /\ expenses'[k].id = KeyOf(reqs[r].data[1])
                    /\ expenses'[k].timestamp = ByPriority(reqs[r].data[1], now)
          /\ UpdateCompletes(r) =>
                \A k \in DOMAIN expenses' :
                    expenses'[k].id = reqs[r].id =>
                       expenses'[k].timestamp = ByPriority(reqs[r].data[1], now)]_vars

\* ------------------------------------------- the normalizer, on its own
\* NormalizeSpec loads one listing and then passes the records of the
\* collection through the normalizer of fetchExpenses again, at any later
\* moment.

\* a canonical record as the normalizer reads it: the properties id, title,
\* category, amount, timestamp and note are there under the names it reads,
\* expenseDate and timeStamp are not (the canonical date is under `date`)
asRaw(c) ==
    Raw(c.id, 0, c.title, c.category, Num(c.amount), 0, c.timestamp, 0, c.note)

NormalizeStores == InitialStores \cup ViewStores

NormalizeInit ==
    /\ expenses = <<>>
    /\ error = NoError
    /\ editingId = 0
    /\ loading = TRUE
    /\ reqs = << Req("load", 0, NoSub) >>
    /\ last = 0
    /\ store \in NormalizeStores
    /\ nextId = 1 + Len(ViewPool)
    /\ now \in {StartTime} \cup ViewTimes
    /\ utcOffset = 0
    /\ selectedMonth = monthKey(now, utcOffset)

\* the .map(expense => ({...})) callback of fetchExpenses over the records
\* of the collection
renormalize ==
    /\ ~loading
    /\ expenses # <<>>
    /\ expenses' = [k \in DOMAIN expenses |-> normalizeListed(asRaw(expenses[k]), now)]
    /\ UNCHANGED <<view, error, editingId, loading, reqs, last, store, nextId, now>>

NormalizeNext ==
    \/ Tick
    \/ getAllExpenses(1)
    \/ fetchExpensesResponse(1)
    \/ renormalize

NormalizeSpec == NormalizeInit /\ [][NormalizeNext]_vars

\* C13. Idempotent re-normalization: the normalizer applied to the records
\* of the collection, which are canonical, at any ingest moment, returns
\* each of them equal to its input in every field.
C13_Idempotent ==
    [][renormalize => expenses' = expenses]_vars

\* the label the series files record e under
LabelOf(e) ==
    LET c == trim(e.category) IN IF c = "" THEN "General" ELSE c

\* the positions of f whose record is filed under label l
Under(f, l) == {k \in DOMAIN f : LabelOf(f[k]) = l}

RECURSIVE SumAmounts(_, _)
SumAmounts(f, K) ==
    IF K = {} THEN 0
    ELSE LET k == CHOOSE x \in K : TRUE
         IN f[k].amount + SumAmounts(f, K \ {k})

\* the least position of K
First(K) == CHOOSE k \in K : \A j \in K : k =< j

\* C14. Category series: the labels of the series of the visible subset are
\* the distinct trimmed categories of its records, an empty or
\* white-space-only category counted under "General", each once, in the
\* order in which they are first seen; the value at each position is the
\* sum of the amounts of exactly the records of that label.
C14_CategorySeries ==
    LET f == Visible
        agg == categoryAgg(f)
    IN /\ DOMAIN agg.data = DOMAIN agg.labels
       /\ {agg.labels[i] : i \in DOMAIN agg.labels} = {LabelOf(f[k]) : k \in DOMAIN f}
       /\ \A i \in DOMAIN agg.labels, j \in DOMAIN agg.labels :
             i < j => /\ agg.labels[i] # agg.labels[j]
                      /\ First(Under(f, agg.labels[i])) < First(Under(f, agg.labels[j]))
       /\ \A i \in DOMAIN agg.labels :
             agg.data[i] = SumAmounts(f, Under(f, agg.labels[i]))

\* C14 witness: the visible subset is a record of category "Food" and
\* amount 10 followed by a record of empty category and amount 5, and the
\* series has labels "Food", "General" and values 10, 5.
C14_Witness ==
    /\ Len(Visible) = 2
    /\ Visible[1].category = "Food" /\ Visible[1].amount = 10
    /\ Visible[2].category = "" /\ Visible[2].amount = 5
    /\ categoryAgg(Visible) = [labels |-> <<"Food", "General">>, data |-> <<10, 5>>]

\* every request issued has completed, and successfully
Quiescent ==
    \A r \in DOMAIN reqs : reqs[r].phase = "done" /\ reqs[r].ok

\* the identifiers of the collection
LocalIds == {expenses[k].id : k \in DOMAIN expenses}

\* the identifiers under which the service lists its records
RemoteIds == {store[k].id : k \in {j \in DOMAIN store : store[j].id # 0}}

\* C15. Quiescent agreement with the remote store: in every state where
\* every issued request has completed successfully and none is in flight,
\* the set of identifiers of the collection equals the set of identifiers
\* the remote service holds (those it lists under id), whatever the order
\* in which the responses arrived.
C15_QuiescentAgreement ==
    Quiescent => LocalIds = RemoteIds

\* the handler of update r completes in this step on a failed call
UpdateFails(r) ==
    /\ reqs[r].op = "update" /\ reqs[r].phase = "replied" /\ ~reqs[r].ok
    /\ HandlerCompletes(r)

\* a handler of create or delete r runs in this step: from the response to
\* its call, or from the listing of the create fallback, on
CreateOrDeleteRuns(r) ==
    /\ reqs[r].op \in {"create", "delete"}
    /\ reqs[r].phase \in {"replied", "listed"}
    /\ reqs'[r].phase # reqs[r].phase

\* C16. Edit-in-progress marker: a successful update sets the marker to
\* none whichever record it pointed at when the response arrived, the
\* updated one, another one or none; a failed update leaves the marker as
\* it was; the handlers of create and delete never change it.
C16_EditMarker ==
    [][\A r \in DOMAIN reqs :
          /\ UpdateCompletes(r) => editingId' = 0
          /\ UpdateFails(r) => editingId' = editingId
          /\ CreateOrDeleteRuns(r) => editingId' = editingId]_vars

\* C16 witness: an update has completed successfully, last of all handlers,
\* while a later update to another record, opened for editing after the
\* first was submitted, is still in flight; the marker is none.
C16_Witness ==
    /\ last # 0
    /\ reqs[last].op = "update" /\ reqs[last].ok
    /\ editingId = 0
    /\ \E q \in DOMAIN reqs :
          /\ q > last
          /\ reqs[q].op = "update"
          /\ reqs[q].id # reqs[last].id
          /\ reqs[q].phase \in {"sent", "replied"}
          /\ Holds(expenses, reqs[q].id)

====
